---- MODULE Spec2Model ----
(***************************************************************************)
(* Model of the "meaningful casts" and `static_if` snippets.               *)
(*                                                                         *)
(*  - SpecIf   : the static_if / then / else_if / else_ / operator() chain *)
(*               builder and the `consume` example built on it.            *)
(*  - SpecNum  : `to_num` and `impl::will_overflow`.                       *)
(*  - SpecCast : the pointer hierarchy casts.                              *)
(*  - SpecEnum : `from_enum` and `to_enum`.                                *)
(*                                                                         *)
(* Every specification leaves the variables of the others untouched.       *)
(***************************************************************************)
EXTENDS Integers, Sequences, FiniteSets, TLC

VARIABLES obj, ops, calls, pc, assert_fired, num, cast, en

varsIf == <<obj, ops, calls, pc>>

varsNum == <<assert_fired, num>>

varsCast == <<cast>>

varsEnum == <<en>>

vars == <<obj, ops, calls, pc, assert_fired, num, cast, en>>

(***************************************************************************)
(* Bounds.                                                                 *)
(***************************************************************************)
\* longest chain of member calls (static_if itself included) that is built
MaxOps == 6

\* Width of a byte. TLC's integers are 32 bits wide, so the 64-bit intmax_t of
\* the build cannot be represented; every width of the machine (integer sizes,
\* mantissa digits, exponent ranges) is kept in the proportion the build has,
\* with a byte of BitsPerByte bits in place of 8.
BitsPerByte == 2

\* how far around each limit of each integer type the inputs are drawn
MaxDelta == 2

(***************************************************************************)
(* static_if: the objects that travel down a chain.                        *)
(* A lambda is identified by the position in the chain of the `then` or    *)
(* `else_` call that received it; 0 stands for "no lambda".                *)
(***************************************************************************)
NoFn == 0

\* static_if(TPredicate): an impl::static_if_impl<TPredicate{}>
static_if(p) == [kind |-> "static_if_impl", pred |-> p, fn |-> NoFn]

\* impl::static_if_result<TF>: holds the lambda of the matched branch
static_if_result(f) == [kind |-> "static_if_result", pred |-> TRUE, fn |-> f]

\* ---- impl::static_if_impl<false> ----
impl_false_then_taken(self, f) == static_if_result(f)
impl_false_then(self, f) == self

impl_false_else_ignored(self, f) == self
impl_false_else_(self, f) == static_if_result(f)

impl_false_else_if(self, p) == static_if(p)

\* operator() of a failed match: no lambda is called
impl_false_call(self, xs) == <<>>

\* ---- impl::static_if_impl<true> ----
impl_true_else_(self, f) == self

impl_true_then(self, f) == static_if_result(f)

impl_true_else_if(self, p) == self

\* ---- impl::static_if_result ----
result_else_(self, f) == self

result_then_last_wins(self, f) == static_if_result(f)
result_then(self, f) == self

result_else_if(self, p) == self

\* operator(): the stored lambda is applied to the forwarded arguments
result_call(self, xs) == <<[fn |-> self.fn, arg |-> xs]>>

\* ---- member lookup on the static type of the object ----
then(self, f) ==
    IF self.kind = "static_if_result" THEN result_then(self, f)
    ELSE IF self.pred THEN impl_true_then(self, f)
    ELSE impl_false_then(self, f)

else_(self, f) ==
    IF self.kind = "static_if_result" THEN result_else_(self, f)
    ELSE IF self.pred THEN impl_true_else_(self, f)
    ELSE impl_false_else_(self, f)

else_if(self, p) ==
    IF self.kind = "static_if_result" THEN result_else_if(self, p)
    ELSE IF self.pred THEN impl_true_else_if(self, p)
    ELSE impl_false_else_if(self, p)

\* static_if_impl<true> declares no operator(): the call does not compile
has_call(self) == self.kind = "static_if_result" \/ ~self.pred

call(self, xs) ==
    IF self.kind = "static_if_result" THEN result_call(self, xs)
    ELSE impl_false_call(self, xs)

(***************************************************************************)
(* The `consume` example.                                                  *)
(***************************************************************************)
Foods == {"banana", "peanuts", "water", "juice", "int", "float"}

is_solid == [T \in Foods |-> T \in {"banana", "peanuts"}]

is_liquid == [T \in Foods |-> T \in {"water", "juice"}]

\* the member calls consume<T> makes, in order
consume_ops(T) ==
    << [m |-> "static_if", p |-> is_solid[T]],
       [m |-> "then",      p |-> FALSE],
       [m |-> "else_if",   p |-> is_liquid[T]],
       [m |-> "then",      p |-> FALSE],
       [m |-> "else_",     p |-> FALSE] >>

\* positions of the three lambdas of consume
EatFn == 2
DrinkFn == 4
CannotFn == 5

\* the object consume<T> finally invokes
consume_obj(T) ==
    else_(then(else_if(then(static_if(is_solid[T]), EatFn),
                       is_liquid[T]), DrinkFn), CannotFn)

(***************************************************************************)
(* SpecIf: chains are built one member call at a time.                     *)
(***************************************************************************)
NoObj == [kind |-> "none", pred |-> FALSE, fn |-> NoFn]

\* num while no call of to_num is under way
NoCall == [st |-> "idle"]

\* cast while no hierarchy cast is under way
NoCast == [st |-> "idle"]

\* en while no enum cast is under way
NoEnumCast == [st |-> "idle"]

InitIf ==
    /\ obj = NoObj
    /\ ops = <<>>
    /\ calls = <<>>
    /\ pc = "start"
    /\ assert_fired = FALSE
    /\ num = NoCall
    /\ cast = NoCast
    /\ en = NoEnumCast

StaticIf(p) ==
    /\ pc = "start"
    /\ obj' = static_if(p)
    /\ ops' = <<[m |-> "static_if", p |-> p]>>
    /\ pc' = "chain"
    /\ UNCHANGED calls
    /\ UNCHANGED <<varsNum, varsCast, varsEnum>>

Then ==
    /\ pc = "chain"
    /\ Len(ops) < MaxOps
    /\ obj' = then(obj, Len(ops) + 1)
    /\ ops' = Append(ops, [m |-> "then", p |-> FALSE])
    /\ UNCHANGED <<calls, pc>>
    /\ UNCHANGED <<varsNum, varsCast, varsEnum>>

ElseIf(p) ==
    /\ pc = "chain"
    /\ Len(ops) < MaxOps
    /\ obj' = else_if(obj, p)
    /\ ops' = Append(ops, [m |-> "else_if", p |-> p])
    /\ UNCHANGED <<calls, pc>>
    /\ UNCHANGED <<varsNum, varsCast, varsEnum>>

Else ==
    /\ pc = "chain"
    /\ Len(ops) < MaxOps
    /\ obj' = else_(obj, Len(ops) + 1)
    /\ ops' = Append(ops, [m |-> "else_", p |-> FALSE])
    /\ UNCHANGED <<calls, pc>>
    /\ UNCHANGED <<varsNum, varsCast, varsEnum>>

Invoke ==
    /\ pc = "chain"
    /\ has_call(obj)
    /\ calls' = call(obj, "xs")
    /\ pc' = "done"
    /\ UNCHANGED <<obj, ops>>
    /\ UNCHANGED <<varsNum, varsCast, varsEnum>>

Consume(T) ==
    /\ pc = "start"
    /\ ops' = consume_ops(T)
    /\ obj' = consume_obj(T)
    /\ calls' = call(consume_obj(T), T)
    /\ pc' = "done"
    /\ UNCHANGED <<varsNum, varsCast, varsEnum>>

NextIf ==
    \/ \E p \in BOOLEAN : StaticIf(p)
    \/ Then
    \/ \E p \in BOOLEAN : ElseIf(p)
    \/ Else
    \/ Invoke
    \/ \E T \in Foods : Consume(T)

SpecIf == InitIf /\ [][NextIf]_vars

(***************************************************************************)
(* Shapes of chains, read off the recorded member calls.                   *)
(***************************************************************************)
IsPredOp(o) == o.m \in {"static_if", "else_if"}

\* static_if(p0).then(f0).else_if(p1).then(f1)...else_if(pn).then(fn)
ChainNoElse(os) ==
    /\ Len(os) >= 2
    /\ Len(os) % 2 = 0
    /\ os[1].m = "static_if"
    /\ \A i \in 2..Len(os) :
          os[i].m = (IF i % 2 = 0 THEN "then" ELSE "else_if")

\* ... followed by .else_(g)
ChainWithElse(os) ==
    /\ Len(os) >= 3
    /\ os[Len(os)].m = "else_"
    /\ ChainNoElse(SubSeq(os, 1, Len(os) - 1))

\* positions of the predicates of a chain that are true
Matched(os) == {i \in 1..Len(os) : IsPredOp(os[i]) /\ os[i].p}

MinOf(S) == CHOOSE i \in S : \A j \in S : i <= j

\* the lambda a chain is expected to call: the `then` lambda of the first
\* true predicate, else the `else_` lambda, else none
Selected(os) ==
    IF Matched(os) # {} THEN MinOf(Matched(os)) + 1
    ELSE IF os[Len(os)].m = "else_" THEN Len(os)
    ELSE NoFn

\* C1: invoking a chain static_if(p0).then(f0)[.else_if(pi).then(fi)]*.else_(g)
\* calls exactly one of its lambdas, whatever the truth values of the
\* predicates: never none, never more than one.
C1_ExactlyOneLambda ==
    (pc = "done" /\ ChainWithElse(ops)) =>
        /\ Len(calls) = 1
        /\ calls[1].fn \in {i \in 1..Len(ops) : ops[i].m \in {"then", "else_"}}

\* a chain with two predicates, both false, and an else_ has been invoked
C1_Witness ==
    /\ pc = "done"
    /\ ChainWithElse(ops)
    /\ Len(ops) >= 5
    /\ Matched(ops) = {}
    /\ Len(calls) = 1

\* C2: the lambda called is the `then` lambda of the first true predicate
\* (even when later predicates are true as well), and it is the else_ lambda
\* exactly when every predicate is false.
C2_FirstMatchWins ==
    (pc = "done" /\ ChainWithElse(ops)) =>
        /\ Len(calls) = 1
        /\ calls[1].fn = Selected(ops)
        /\ (calls[1].fn = Len(ops)) <=> (Matched(ops) = {})

\* a chain whose first and second predicates are both true has been invoked
C2_Witness ==
    /\ pc = "done"
    /\ ChainWithElse(ops)
    /\ Cardinality(Matched(ops)) >= 2
    /\ calls # <<>>
    /\ calls[1].fn = 2

\* a lambda is the selected branch: a `then` whose own predicate is true with
\* no true predicate before it, or the else_ with no true predicate at all
IsSelectedBranch(os, f) ==
    /\ f \in 2..Len(os)
    /\ \/ /\ os[f].m = "then"
          /\ os[f - 1].p
          /\ \A i \in 1..(f - 2) : ~(IsPredOp(os[i]) /\ os[i].p)
       \/ /\ os[f].m = "else_"
          /\ Matched(os) = {}

\* C3: a lambda that is not the selected branch is never applied to the
\* arguments; in consume(x) the eat body never runs on a non-solid x, the
\* drink body never on a non-liquid x, and int and float reach only else_.
C3_OnlySelectedBranchRuns ==
    (pc = "done" /\ (ChainWithElse(ops) \/ ChainNoElse(ops))) =>
        \A k \in 1..Len(calls) :
            /\ IsSelectedBranch(ops, calls[k].fn)
            /\ calls[k].arg \in Foods =>
                  /\ calls[k].fn = EatFn => is_solid[calls[k].arg]
                  /\ calls[k].fn = DrinkFn => is_liquid[calls[k].arg]
                  /\ calls[k].arg \in {"int", "float"} => calls[k].fn = CannotFn

\* consume(int{}) has run and reached the else_ lambda
C3_Witness ==
    /\ pc = "done"
    /\ ops = consume_ops("int")
    /\ calls = <<[fn |-> CannotFn, arg |-> "int"]>>

(***************************************************************************)
(* Arithmetic types.                                                       *)
(* Sizes are those of the LP64 build the tests assume (long wider than     *)
(* int, char signed).                                                      *)
(***************************************************************************)
IntTypes == {"char", "uchar", "short", "ushort", "int", "uint",
             "long", "ulong", "llong", "ullong"}

FloatTypes == {"float", "double", "ldouble"}

NumTypes == IntTypes \cup FloatTypes

is_integral(T) == T \in IntTypes

is_signed(T) == T \in {"char", "short", "int", "long", "llong"} \cup FloatTypes

size_of ==
    [T \in IntTypes |->
        CASE T \in {"char", "uchar"} -> 1
          [] T \in {"short", "ushort"} -> 2
          [] T \in {"int", "uint"} -> 4
          [] OTHER -> 8]

intmax_t == "long"

uintmax_t == "ulong"

RECURSIVE Pow2(_)
Pow2(n) == IF n = 0 THEN 1 ELSE 2 * Pow2(n - 1)

Bits(T) == size_of[T] * BitsPerByte

\* std::numeric_limits<T>::min() and max() of an integer type
int_min(T) == IF is_signed(T) THEN -Pow2(Bits(T) - 1) ELSE 0

int_max(T) == IF is_signed(T) THEN Pow2(Bits(T) - 1) - 1 ELSE Pow2(Bits(T)) - 1

InRange(T, v) == int_min(T) <= v /\ v <= int_max(T)

\* static_cast<T>(v) between integer types: the value modulo 2^width
static_cast_int(T, v) ==
    LET m == Pow2(Bits(T))
        r == v % m
    IN  IF is_signed(T) /\ r >= m \div 2 THEN r - m ELSE r

(***************************************************************************)
(* Floating-point values: m * 2^e with m odd (or zero), or one of the      *)
(* special values.  A long double holds every uintmax_t exactly.           *)
(***************************************************************************)
RECURSIVE BitLen(_)
BitLen(n) == IF n = 0 THEN 0 ELSE 1 + BitLen(n \div 2)

Abs(n) == IF n < 0 THEN -n ELSE n

RECURSIVE Norm(_, _)
Norm(m, e) ==
    IF m = 0 THEN [cls |-> "fin", m |-> 0, e |-> 0]
    ELSE IF m % 2 = 0 THEN Norm(m \div 2, e + 1)
    ELSE [cls |-> "fin", m |-> m, e |-> e]

NaN == [cls |-> "nan", m |-> 0, e |-> 0]

PosInf == [cls |-> "inf", m |-> 1, e |-> 0]

NegInf == [cls |-> "inf", m |-> -1, e |-> 0]

Neg(a) == [a EXCEPT !.m = -a.m]

\* |a| < |b| for finite non-zero a, b
MagLess(a, b) ==
    LET la == BitLen(Abs(a.m)) + a.e
        lb == BitLen(Abs(b.m)) + b.e
        e0 == IF a.e < b.e THEN a.e ELSE b.e
    IN  IF la # lb THEN la < lb
        ELSE Abs(a.m) * Pow2(a.e - e0) < Abs(b.m) * Pow2(b.e - e0)

\* a < b as the hardware compares: false when either side is a NaN
Less(a, b) ==
    CASE a.cls = "nan" \/ b.cls = "nan" -> FALSE
      [] a.cls = "inf" -> a.m < 0 /\ ~(b.cls = "inf" /\ b.m < 0)
      [] b.cls = "inf" -> b.m > 0
      [] a.m = 0 -> b.m > 0
      [] b.m = 0 -> a.m < 0
      [] a.m < 0 /\ b.m > 0 -> TRUE
      [] a.m > 0 /\ b.m < 0 -> FALSE
      [] a.m > 0 -> MagLess(a, b)
      [] OTHER -> MagLess(b, a)

\* the parameters of the floating types at 8 bits per byte
mant_dig == [F \in FloatTypes |->
                CASE F = "float" -> 24 [] F = "double" -> 53 [] OTHER -> 64]

max_exp == [F \in FloatTypes |->
                CASE F = "float" -> 128 [] F = "double" -> 1024 [] OTHER -> 16384]

MantDig(F) == (mant_dig[F] * BitsPerByte) \div 8

MaxExp(F) == (max_exp[F] * BitsPerByte) \div 8

\* std::numeric_limits<F>::max(), lowest() and min() of a floating type
float_max(F) == Norm(Pow2(MantDig(F)) - 1, MaxExp(F) - MantDig(F))

float_lowest(F) == Neg(float_max(F))

float_min(F) == Norm(1, 2 - MaxExp(F))

\* (long double)v of an integer value: exact
int_to_ld(v) == Norm(v, 0)

\* (long double)x of a value of type T
to_ld(T, x) == IF is_integral(T) THEN int_to_ld(x) ELSE x

\* std::numeric_limits<T>::max() and lowest() as long double
ld_max(T) == IF is_integral(T) THEN int_to_ld(int_max(T)) ELSE float_max(T)

ld_lowest(T) == IF is_integral(T) THEN int_to_ld(int_min(T)) ELSE float_lowest(T)

ld_min(T) == IF is_integral(T) THEN int_to_ld(int_min(T)) ELSE float_min(T)

\* static_cast<F>(v) of an integer value: nearest representable, ties to even
int_to_float(F, v) ==
    LET n == BitLen(Abs(v))
        sh == n - MantDig(F)
    IN  IF sh <= 0 THEN Norm(v, 0)
        ELSE LET q == Abs(v) \div Pow2(sh)
                 r == Abs(v) % Pow2(sh)
                 half == Pow2(sh - 1)
                 up == r > half \/ (r = half /\ q % 2 = 1)
                 q2 == IF up THEN q + 1 ELSE q
             IN  Norm((IF v < 0 THEN -1 ELSE 1) * q2, sh)

\* a finite floating value lies strictly between -2^k and 2^k
MagBelowPow2(a, k) == a.m = 0 \/ BitLen(Abs(a.m)) + a.e <= k

\* the integer part of a finite value of modest magnitude (toward zero)
Trunc(a) ==
    IF a.e >= 0 THEN a.m * Pow2(a.e)
    ELSE IF -a.e >= BitLen(Abs(a.m)) THEN 0
    ELSE (IF a.m < 0 THEN -1 ELSE 1) * (Abs(a.m) \div Pow2(-a.e))

HasFraction(a) == a.cls = "fin" /\ a.e < 0

\* static_cast<TOut>(x) of a floating value is defined when the truncated
\* value fits TOut
float_to_int_defined(TOut, a) ==
    /\ a.cls = "fin"
    /\ MagBelowPow2(a, Bits(uintmax_t) + 1)
    /\ InRange(TOut, Trunc(a))

(***************************************************************************)
(* impl::will_overflow                                                     *)
(***************************************************************************)
\* integer to integer, signed output: an unsigned input above intmax_t's max
tt_above_intmax_signed_compare(TIn, x) ==
    ~is_signed(TIn) /\ static_cast_int(intmax_t, x) > int_max(intmax_t)
tt_above_intmax(TIn, x) ==
    /\ ~is_signed(TIn)
    /\ static_cast_int(uintmax_t, x)
          > static_cast_int(uintmax_t, int_max(intmax_t))

\* signed output: the input as intmax_t is below the output minimum
tt_below_out_min_unsigned_compare(TOut, x) ==
    static_cast_int(uintmax_t, x) < static_cast_int(uintmax_t, int_min(TOut))
tt_below_out_min(TOut, x) ==
    static_cast_int(intmax_t, x) < static_cast_int(intmax_t, int_min(TOut))

\* signed output: the input as intmax_t is above the output maximum
tt_above_out_max_inclusive(TOut, x) ==
    static_cast_int(intmax_t, x) >= static_cast_int(intmax_t, int_max(TOut))
tt_above_out_max(TOut, x) ==
    static_cast_int(intmax_t, x) > static_cast_int(intmax_t, int_max(TOut))

\* unsigned output: the input is negative
tt_negative_unsigned_compare(x) == static_cast_int(uintmax_t, x) < 0
tt_negative(x) == x < 0

\* unsigned output: the input as uintmax_t is above the output maximum
tt_above_out_max_u(TOut, x) ==
    static_cast_int(uintmax_t, x) > static_cast_int(uintmax_t, int_max(TOut))

\* unsigned output: the round trip through TOut changes the value
tt_round_trip_differs(TOut, TIn, x) ==
    static_cast_int(TIn, static_cast_int(TOut, x)) # x

\* will_overflow_impl(x, true_type, true_type): both types integral
will_overflow_impl_tt(TOut, TIn, x) ==
    IF is_signed(TOut)
    THEN IF tt_above_intmax(TIn, x) THEN TRUE
         ELSE IF tt_below_out_min(TOut, x) THEN TRUE
         ELSE IF tt_above_out_max(TOut, x) THEN TRUE
         ELSE FALSE
    ELSE IF tt_negative(x) THEN TRUE
         ELSE IF tt_above_out_max_u(TOut, x) THEN TRUE
         ELSE IF tt_round_trip_differs(TOut, TIn, x) THEN TRUE
         ELSE FALSE

\* will_overflow_impl(x, true_type, false_type): floating to integer
will_overflow_impl_tf(TOut, TIn, x) ==
    IF Less(ld_max(TOut), to_ld(TIn, x)) \/ Less(to_ld(TIn, x), ld_lowest(TOut))
    THEN TRUE
    ELSE FALSE

\* will_overflow_impl(x, false_type, true_type): integer to floating
will_overflow_impl_ft_min(TOut, TIn, x) ==
    IF Less(ld_max(TOut), to_ld(TIn, x)) \/ Less(to_ld(TIn, x), ld_min(TOut))
    THEN TRUE
    ELSE FALSE
will_overflow_impl_ft(TOut, TIn, x) ==
    IF Less(ld_max(TOut), to_ld(TIn, x)) \/ Less(to_ld(TIn, x), ld_lowest(TOut))
    THEN TRUE
    ELSE FALSE

\* The overload is chosen by is_integral of the two types.  The overload for
\* two floating types reads the floating-point environment and is not
\* modelled: no pair of floating types is drawn below.
will_overflow(TOut, TIn, x) ==
    IF is_integral(TOut) /\ is_integral(TIn) THEN will_overflow_impl_tt(TOut, TIn, x)
    ELSE IF is_integral(TOut) THEN will_overflow_impl_tf(TOut, TIn, x)
    ELSE will_overflow_impl_ft(TOut, TIn, x)

\* the values static_cast<TOut>(x) can produce; a floating value that does not
\* fit an integer TOut is undefined behaviour, and any value of TOut may come
\* out of it
static_cast_num(TOut, TIn, x) ==
    IF is_integral(TOut) /\ is_integral(TIn) THEN {static_cast_int(TOut, x)}
    ELSE IF is_integral(TIn) THEN {int_to_float(TOut, x)}
    ELSE IF float_to_int_defined(TOut, x) THEN {Trunc(x)}
    ELSE {int_min(TOut), 0, int_max(TOut)}

(***************************************************************************)
(* The inputs that are drawn.                                              *)
(***************************************************************************)
Deltas == (-MaxDelta)..MaxDelta

\* the limits of every integer type, and zero
Anchors == {0} \cup {int_min(T) : T \in IntTypes} \cup {int_max(T) : T \in IntTypes}

\* the values of an integer type within MaxDelta of an anchor
IntInputs(T) == {v \in {a + d : a \in Anchors, d \in Deltas} : InRange(T, v)}

\* a finite value fits the mantissa of F
FitsMantissa(F, a) == BitLen(Abs(a.m)) <= MantDig(F)

\* the values of a floating type that are drawn: the multiples of 1/2 within
\* MaxDelta of an anchor that F represents, the limits of F and of the wider
\* integer range, the smallest normal value, the infinities and a NaN
FloatInputs(F) ==
    {a \in {Norm(2 * v + h, -1) :
               v \in {c + d : c \in Anchors, d \in Deltas}, h \in {0, 1}} :
        FitsMantissa(F, a)}
    \cup {float_max(F), float_lowest(F), float_min(F), PosInf, NegInf, NaN}

Inputs(T) == IF is_integral(T) THEN IntInputs(T) ELSE FloatInputs(T)

\* the pairs of types to_num is instantiated with
TypePairs ==
    {tp \in NumTypes \X NumTypes : is_integral(tp[1]) \/ is_integral(tp[2])}

(***************************************************************************)
(* SpecNum: one call of to_num<TOut>(x), TIn deduced from x.  The types    *)
(* and the argument are drawn at the start; FAKE_ASSERT sets assert_fired  *)
(* and lets the call go on; ensure_assert clears it.  num holds the call.  *)
(***************************************************************************)
InitNum ==
    /\ assert_fired = FALSE
    /\ \E tp \in TypePairs : \E x \in Inputs(tp[2]) :
          num = [st |-> "drawn", TOut |-> tp[1], TIn |-> tp[2], x |-> x,
                 fired |-> FALSE, ret |-> 0]
    /\ obj = NoObj
    /\ ops = <<>>
    /\ calls = <<>>
    /\ pc = "start"
    /\ cast = NoCast
    /\ en = NoEnumCast

to_num ==
    /\ num.st = "drawn"
    /\ LET fires == will_overflow(num.TOut, num.TIn, num.x)
       IN  /\ assert_fired' = (assert_fired \/ fires)
           /\ \E r \in static_cast_num(num.TOut, num.TIn, num.x) :
                 num' = [num EXCEPT !.st = "returned", !.fired = fires, !.ret = r]
    /\ UNCHANGED <<varsIf, varsCast, varsEnum>>

ensure_assert ==
    /\ num.st = "returned"
    /\ assert_fired
    /\ assert_fired' = FALSE
    /\ UNCHANGED num
    /\ UNCHANGED <<varsIf, varsCast, varsEnum>>

NextNum ==
    \/ to_num
    \/ ensure_assert

SpecNum == InitNum /\ [][NextNum]_vars

Called == num.st = "returned"

IntToInt == Called /\ is_integral(num.TOut) /\ is_integral(num.TIn)

IntToFloat == Called /\ is_integral(num.TIn) /\ num.TOut \in FloatTypes

FloatToInt == Called /\ num.TIn \in FloatTypes /\ is_integral(num.TOut)

SameSignedness == is_signed(num.TOut) = is_signed(num.TIn)

\* C4: for integer TOut and TIn of any widths and signedness, the assertion
\* of to_num<TOut>(x) fires if and only if x is outside [min(TOut), max(TOut)].
C4_FiresIffOutOfRange ==
    IntToInt => (num.fired <=> ~InRange(num.TOut, num.x))

\* one past the maximum of a signed type, coming from a wider unsigned type,
\* has fired
C4_Witness ==
    /\ IntToInt
    /\ num.TOut = "short"
    /\ num.TIn = "uint"
    /\ num.x = int_max("short") + 1
    /\ num.fired

\* lowest and max of a signed type, max of an unsigned one
Extremes(T) == IF is_signed(T) THEN {int_min(T), int_max(T)} ELSE {int_max(T)}

\* C5: with the same signedness, to_num never fires when TOut is at least as
\* large as TIn, and fires on the extreme values of TIn when TOut is strictly
\* narrower.
C5_SameSignednessBySize ==
    (IntToInt /\ SameSignedness) =>
        /\ size_of[num.TOut] >= size_of[num.TIn] => ~num.fired
        /\ (size_of[num.TOut] < size_of[num.TIn] /\ num.x \in Extremes(num.TIn))
              => num.fired

\* the lowest long has been cast to char, and the assertion fired
C5_Witness ==
    /\ IntToInt
    /\ num.TOut = "char"
    /\ num.TIn = "long"
    /\ num.x = int_min("long")
    /\ num.fired

\* C6: from a signed integer type to an unsigned one of any width, to_num
\* fires for every negative x.
C6_NegativeToUnsignedFires ==
    (IntToInt /\ is_signed(num.TIn) /\ ~is_signed(num.TOut) /\ num.x < 0)
        => num.fired

\* (char)-1 has been cast to the widest unsigned type, and the assertion fired
C6_Witness ==
    /\ IntToInt
    /\ num.TOut = "ullong"
    /\ num.TIn = "char"
    /\ num.x = -1
    /\ num.fired

\* C7: from an unsigned integer type to a signed one, to_num never fires when
\* TOut is strictly wider, and fires for every x above max(TOut) when TOut has
\* the same or a smaller width.
C7_UnsignedToSigned ==
    (IntToInt /\ ~is_signed(num.TIn) /\ is_signed(num.TOut)) =>
        /\ Bits(num.TOut) > Bits(num.TIn) => ~num.fired
        /\ (Bits(num.TOut) <= Bits(num.TIn) /\ num.x > int_max(num.TOut))
              => num.fired

\* the maximum unsigned long has been cast to long, and the assertion fired
C7_Witness ==
    /\ IntToInt
    /\ num.TOut = "long"
    /\ num.TIn = "ulong"
    /\ num.x = int_max("ulong")
    /\ num.fired

\* C8: from any integer type to float, double or long double, to_num never
\* fires, the lowest and the maximum value of the integer type included.
C8_IntToFloatNeverFires ==
    IntToFloat => ~num.fired

\* the maximum unsigned long and the lowest long have their turn: here the
\* maximum unsigned long has been cast to float without firing
C8_Witness ==
    /\ IntToFloat
    /\ num.TOut = "float"
    /\ num.TIn = "ulong"
    /\ num.x = int_max("ulong")
    /\ ~num.fired

\* a floating value is a value of the integer type T
Representable(T, a) ==
    /\ a.cls = "fin"
    /\ ~HasFraction(a)
    /\ MagBelowPow2(a, Bits(uintmax_t) + 1)
    /\ InRange(T, Trunc(a))

\* C9: from a floating-point x to an integer TOut, to_num fires whenever x is
\* not representable in TOut (out of range, or with a fractional part) and
\* does not fire when x is representable.
C9_FiresIffNotRepresentable ==
    FloatToInt => (num.fired <=> ~Representable(num.TOut, num.x))

(***************************************************************************)
(* Class hierarchies the casts are instantiated with.                      *)
(* shape, rectangle and circle are the polymorphic example; base0 and its  *)
(* two derived classes the non-polymorphic one.  square and capsule stand  *)
(* for classes derived further: square from rectangle alone, capsule from  *)
(* rectangle and circle (two shape subobjects, non-virtual inheritance).   *)
(***************************************************************************)
Classes == {"shape", "rectangle", "circle", "square", "capsule",
            "base0", "derived00", "derived01"}

\* the direct public bases of a class
bases ==
    [C \in Classes |->
        CASE C \in {"rectangle", "circle"} -> {"shape"}
          [] C = "square" -> {"rectangle"}
          [] C = "capsule" -> {"rectangle", "circle"}
          [] C \in {"derived00", "derived01"} -> {"base0"}
          [] OTHER -> {}]

\* std::is_polymorphic: the class declares or inherits a virtual function
is_polymorphic(C) ==
    C \in {"shape", "rectangle", "circle", "square", "capsule"}

\* the base-class paths from class C down to its subobjects of class B
RECURSIVE Paths(_, _)
Paths(C, B) ==
    IF C = B THEN {<<C>>}
    ELSE UNION {{<<C>> \o q : q \in Paths(b, B)} : b \in bases[C]}

\* std::is_base_of<B, D>
is_base_of(B, D) == Paths(D, B) # {}

\* B is a base of D that a pointer conversion can name: exactly one subobject
unambiguous_base(B, D) == Cardinality(Paths(D, B)) = 1

ThePath(C, B) == CHOOSE q \in Paths(C, B) : TRUE

(***************************************************************************)
(* Pointers: the complete object (its dynamic type) and the path from it   *)
(* to the subobject pointed to; the static type is the end of the path.    *)
(***************************************************************************)
Null(T) == [dyn |-> "null", path |-> <<T>>]

\* what a static_cast down to a class the object is not yields
Invalid(T) == [dyn |-> "invalid", path |-> <<T>>]

is_null(p) == p.dyn = "null"

StaticType(p) == p.path[Len(p.path)]

\* every pointer of static type T: null, or one per T subobject of an object
ValidPointers(T) ==
    {Null(T)} \cup
    UNION {{[dyn |-> C, path |-> q] : q \in Paths(C, T)} : C \in Classes}

\* static_cast<B*>(p), B a base of p's static type
static_upcast(B, p) ==
    IF is_null(p) THEN Null(B)
    ELSE [p EXCEPT !.path = p.path \o Tail(ThePath(StaticType(p), B))]

\* static_cast<D*>(p), D derived from p's static type: the D object whose
\* base subobject p points to; undefined when there is none
static_downcast(D, p) ==
    IF is_null(p) THEN Null(D)
    ELSE LET n == Len(p.path)
             at == {i \in 1..n : p.path[i] = D
                                  /\ SubSeq(p.path, i, n) \in Paths(D, StaticType(p))}
         IN  IF at = {} THEN Invalid(D)
             ELSE [p EXCEPT !.path = SubSeq(p.path, 1, CHOOSE i \in at : TRUE)]

static_cast_ptr(T, p) ==
    IF is_base_of(T, StaticType(p)) THEN static_upcast(T, p)
    ELSE static_downcast(T, p)

\* dynamic_cast<T*>(p): a conversion to a base is the static one; otherwise
\* the T object p's subobject lies in, else the only T subobject of the
\* complete object, else null
dynamic_cast(T, p) ==
    IF is_null(p) THEN Null(T)
    ELSE IF is_base_of(T, StaticType(p)) THEN static_upcast(T, p)
    ELSE LET n == Len(p.path)
             at == {i \in 1..n : p.path[i] = T}
         IN  IF at # {} THEN [p EXCEPT !.path = SubSeq(p.path, 1, CHOOSE i \in at : TRUE)]
             ELSE IF unambiguous_base(T, p.dyn)
                  THEN [p EXCEPT !.path = ThePath(p.dyn, T)]
             ELSE Null(T)

\* a == b of two pointers: the one to the derived class is converted to the
\* base class first
ptr_eq(a, b) ==
    IF is_base_of(StaticType(b), StaticType(a))
    THEN static_upcast(StaticType(b), a) = b
    ELSE static_upcast(StaticType(a), b) = a

\* the run-time check of the polymorphic casts
polymorphic_check_not_null(T, p) == ~is_null(dynamic_cast(T, p))
polymorphic_check(T, p) == ptr_eq(dynamic_cast(T, p), p)

(***************************************************************************)
(* SpecCast: one call of a pointer-taking hierarchy cast.  The function,   *)
(* the two classes and the pointer are drawn at the start, among the       *)
(* instantiations that compile.  A failed assert ends the program.         *)
(***************************************************************************)
CastFns == {"to_derived", "to_base", "to_polymorphic_derived", "to_polymorphic_base"}

\* the static_asserts of the interface functions and of hierarchy_cast, and
\* the well-formedness of the static_cast
Compiles(fn, TBase, TDerived) ==
    /\ is_base_of(TBase, TDerived)
    /\ unambiguous_base(TBase, TDerived)
    /\ is_polymorphic(TBase) <=> fn \in {"to_polymorphic_derived", "to_polymorphic_base"}

\* the class of the argument, and the class cast to
ArgType(fn, TBase, TDerived) ==
    IF fn \in {"to_derived", "to_polymorphic_derived"} THEN TBase ELSE TDerived

OutType(fn, TBase, TDerived) ==
    IF fn \in {"to_derived", "to_polymorphic_derived"} THEN TDerived ELSE TBase

InitCast ==
    /\ \E fn \in CastFns, TBase \in Classes, TDerived \in Classes :
          /\ Compiles(fn, TBase, TDerived)
          /\ \E p \in ValidPointers(ArgType(fn, TBase, TDerived)) :
                cast = [st |-> "drawn", fn |-> fn, TBase |-> TBase,
                        TDerived |-> TDerived, ptr |-> p,
                        fired |-> "none", ret |-> Null(OutType(fn, TBase, TDerived))]
    /\ assert_fired = FALSE
    /\ num = NoCall
    /\ obj = NoObj
    /\ ops = <<>>
    /\ calls = <<>>
    /\ pc = "start"
    /\ en = NoEnumCast

\* impl::hierarchy_cast: the null check, then the static_cast
hierarchy_cast_unchecked(TOut, c) ==
    [c EXCEPT !.st = "returned", !.ret = static_cast_ptr(TOut, c.ptr)]
hierarchy_cast(TOut, c) ==
    IF is_null(c.ptr)
    THEN [c EXCEPT !.st = "aborted", !.fired = "ptr != nullptr"]
    ELSE [c EXCEPT !.st = "returned", !.ret = static_cast_ptr(TOut, c.ptr)]

\* the polymorphic interface functions: hierarchy_cast, then the assertion
\* dynamic_cast<decltype(res)>(ptr) == ptr
polymorphic_cast(TOut, c) ==
    LET r == hierarchy_cast(TOut, c)
    IN  IF r.st = "aborted" THEN r
        ELSE IF ~polymorphic_check(TOut, c.ptr)
        THEN [c EXCEPT !.st = "aborted", !.fired = "dynamic_cast"]
        ELSE r

to_derived ==
    /\ cast.st = "drawn"
    /\ cast.fn = "to_derived"
    /\ cast' = hierarchy_cast(cast.TDerived, cast)
    /\ UNCHANGED <<varsIf, varsNum, varsEnum>>

to_base ==
    /\ cast.st = "drawn"
    /\ cast.fn = "to_base"
    /\ cast' = hierarchy_cast(cast.TBase, cast)
    /\ UNCHANGED <<varsIf, varsNum, varsEnum>>

to_polymorphic_derived ==
    /\ cast.st = "drawn"
    /\ cast.fn = "to_polymorphic_derived"
    /\ cast' = polymorphic_cast(cast.TDerived, cast)
    /\ UNCHANGED <<varsIf, varsNum, varsEnum>>

to_polymorphic_base ==
    /\ cast.st = "drawn"
    /\ cast.fn = "to_polymorphic_base"
    /\ cast' = polymorphic_cast(cast.TBase, cast)
    /\ UNCHANGED <<varsIf, varsNum, varsEnum>>

NextCast ==
    \/ to_derived
    \/ to_base
    \/ to_polymorphic_derived
    \/ to_polymorphic_base

SpecCast == InitCast /\ [][NextCast]_vars

PolyDerivedDone ==
    /\ cast.st \in {"returned", "aborted"}
    /\ cast.fn = "to_polymorphic_derived"
    /\ ~is_null(cast.ptr)

\* the classes on the path of a pointer: those whose subobject holds *p
Holders(p) == {p.path[i] : i \in 1..Len(p.path)}

\* C10 as stated: to_polymorphic_derived<D>(p), p not null, passes its
\* run-time check if and only if the dynamic type of *p is D or a class
\* derived from D.
C10_PassesIffDynamicTypeDerives ==
    PolyDerivedDone =>
        (cast.st = "returned" <=> is_base_of(cast.TDerived, cast.ptr.dyn))

\* C10 as amended: the check passes if and only if p points to the base
\* subobject of a D object (the complete object or a D subobject of it), and
\* the cast then returns that D object; for an object with a single TBase
\* subobject that is if and only if its dynamic type is D or derives from D;
\* otherwise the assertion dynamic_cast<D*>(p) == p is the one that fires.
C10_PassesIffInsideD ==
    PolyDerivedDone =>
        /\ cast.st = "returned" <=> cast.TDerived \in Holders(cast.ptr)
        /\ unambiguous_base(cast.TBase, cast.ptr.dyn) =>
              (cast.st = "returned" <=> is_base_of(cast.TDerived, cast.ptr.dyn))
        /\ cast.st = "aborted" => cast.fired = "dynamic_cast"
        /\ cast.st = "returned" =>
              /\ cast.ret.dyn = cast.ptr.dyn
              /\ StaticType(cast.ret) = cast.TDerived

\* a pointer to the shape of a circle has been cast to rectangle, and the
\* dynamic_cast assertion fired
C10_Witness ==
    /\ PolyDerivedDone
    /\ cast.ptr = [dyn |-> "circle", path |-> <<"circle", "shape">>]
    /\ cast.TDerived = "rectangle"
    /\ cast.st = "aborted"
    /\ cast.fired = "dynamic_cast"

CastDone == cast.st \in {"returned", "aborted"}

\* C11: each of to_base, to_derived, to_polymorphic_base and
\* to_polymorphic_derived fires an assertion when given a null pointer, and
\* the assertion that fires is the null check, which comes before the
\* dynamic_cast comparison of the polymorphic casts: a null pointer is never
\* returned.
C11_NullPointerFires ==
    (CastDone /\ is_null(cast.ptr)) =>
        /\ cast.st = "aborted"
        /\ cast.fired = "ptr != nullptr"

\* a null shape* has been given to to_polymorphic_derived<circle>, whose
\* dynamic_cast comparison would have held, and the null check fired
C11_Witness ==
    /\ cast.st = "aborted"
    /\ cast.fn = "to_polymorphic_derived"
    /\ cast.TDerived = "circle"
    /\ cast.ptr = Null("shape")
    /\ polymorphic_check("circle", cast.ptr)
    /\ cast.fired = "ptr != nullptr"

(***************************************************************************)
(* Enum casts.                                                             *)
(* int_enum and uchar_enum are the enums of the example; the others stand  *)
(* for enums declared over the remaining integer types.  An enum with a    *)
(* fixed underlying type holds every value of that type.                   *)
(***************************************************************************)
EnumTypes == {"char_enum", "uchar_enum", "short_enum", "ushort_enum",
              "int_enum", "uint_enum", "long_enum", "ulong_enum",
              "llong_enum", "ullong_enum"}

\* std::underlying_type_t
underlying_type ==
    [E \in EnumTypes |->
        CASE E = "char_enum" -> "char"     [] E = "uchar_enum" -> "uchar"
          [] E = "short_enum" -> "short"   [] E = "ushort_enum" -> "ushort"
          [] E = "int_enum" -> "int"       [] E = "uint_enum" -> "uint"
          [] E = "long_enum" -> "long"     [] E = "ulong_enum" -> "ulong"
          [] E = "llong_enum" -> "llong"   [] OTHER -> "ullong"]

is_enum(T) == T \in EnumTypes

\* static_cast<E>(n): the value of enum E with underlying value n
enum_value(E, n) == [enum |-> E, v |-> n]

\* the values of an enum that are drawn
EnumInputs(E) == {enum_value(E, n) : n \in IntInputs(underlying_type[E])}

\* to_num as the enum casts use it: a plain assert, which ends the program
\* when will_overflow holds; otherwise the values static_cast<TOut>(x) yields
to_num_assert(TOut, TIn, x) ==
    [fired |-> will_overflow(TOut, TIn, x),
     vals |-> static_cast_num(TOut, TIn, x)]

\* from_enum<TOut>(e)
from_enum_static_cast(TOut, e) ==
    [fired |-> FALSE,
     vals |-> static_cast_num(TOut, underlying_type[e.enum], e.v)]
from_enum(TOut, e) ==
    to_num_assert(TOut, underlying_type[e.enum], e.v)

\* from_enum(e): to e's own underlying type
from_enum_underlying(e) == from_enum(underlying_type[e.enum], e)

\* to_enum<TOut>(x), x a number of type TIn
to_enum_num(TOut, TIn, x) ==
    LET r == to_num_assert(underlying_type[TOut], TIn, x)
    IN  [fired |-> r.fired, vals |-> {enum_value(TOut, n) : n \in r.vals}]

\* to_enum<TOut>(e), e a value of another enum: to_enum<TOut>(from_enum(e))
to_enum_enum_static_cast(TOut, e) ==
    [fired |-> FALSE,
     vals |-> {enum_value(TOut, static_cast_int(underlying_type[TOut], e.v))}]
to_enum_enum(TOut, e) ==
    LET r == from_enum_underlying(e)
    IN  IF r.fired THEN [fired |-> TRUE, vals |-> {}]
        ELSE LET n == CHOOSE n \in r.vals : TRUE
             IN  to_enum_num(TOut, underlying_type[e.enum], n)

(***************************************************************************)
(* SpecEnum: one call of an enum cast.  The function, the types and the    *)
(* argument are drawn at the start, among the instantiations that compile. *)
(***************************************************************************)
EnumCastFns == {"from_enum", "from_enum_underlying", "to_enum_num", "to_enum_enum"}

\* the input and output types each function is instantiated with
EnumCastTypes(fn) ==
    CASE fn = "from_enum" -> EnumTypes \X NumTypes
      [] fn = "from_enum_underlying" ->
            {<<E, underlying_type[E]>> : E \in EnumTypes}
      [] fn = "to_enum_num" -> NumTypes \X EnumTypes
      [] OTHER -> EnumTypes \X EnumTypes

EnumCastInputs(T) == IF is_enum(T) THEN EnumInputs(T) ELSE Inputs(T)

InitEnum ==
    /\ \E fn \in EnumCastFns : \E io \in EnumCastTypes(fn) :
       \E x \in EnumCastInputs(io[1]) :
          en = [st |-> "drawn", fn |-> fn, TIn |-> io[1], TOut |-> io[2],
                x |-> x, ret |-> 0]
    /\ cast = NoCast
    /\ assert_fired = FALSE
    /\ num = NoCall
    /\ obj = NoObj
    /\ ops = <<>>
    /\ calls = <<>>
    /\ pc = "start"

\* the call ends: the program is aborted by the assert, or a value returns
EnumCastEnds(r) ==
    IF r.fired THEN en' = [en EXCEPT !.st = "aborted"]
    ELSE \E v \in r.vals : en' = [en EXCEPT !.st = "returned", !.ret = v]

FromEnum ==
    /\ en.st = "drawn"
    /\ en.fn = "from_enum"
    /\ EnumCastEnds(from_enum(en.TOut, en.x))
    /\ UNCHANGED <<varsIf, varsNum, varsCast>>

FromEnumUnderlying ==
    /\ en.st = "drawn"
    /\ en.fn = "from_enum_underlying"
    /\ EnumCastEnds(from_enum_underlying(en.x))
    /\ UNCHANGED <<varsIf, varsNum, varsCast>>

ToEnumNum ==
    /\ en.st = "drawn"
    /\ en.fn = "to_enum_num"
    /\ EnumCastEnds(to_enum_num(en.TOut, en.TIn, en.x))
    /\ UNCHANGED <<varsIf, varsNum, varsCast>>

ToEnumEnum ==
    /\ en.st = "drawn"
    /\ en.fn = "to_enum_enum"
    /\ EnumCastEnds(to_enum_enum(en.TOut, en.x))
    /\ UNCHANGED <<varsIf, varsNum, varsCast>>

NextEnum ==
    \/ FromEnum
    \/ FromEnumUnderlying
    \/ ToEnumNum
    \/ ToEnumEnum

SpecEnum == InitEnum /\ [][NextEnum]_vars

EnumCastDone(fn) == en.st \in {"returned", "aborted"} /\ en.fn = fn

\* the integer n is a value of the arithmetic type T, exactly
RepresentableIn(T, n) ==
    IF is_integral(T) THEN InRange(T, n) ELSE int_to_float(T, n) = Norm(n, 0)

\* the integer n lies between the lowest and the greatest value of T
InsideRangeOf(T, n) ==
    IF is_integral(T) THEN InRange(T, n)
    ELSE /\ ~Less(int_to_ld(n), ld_lowest(T))
         /\ ~Less(ld_max(T), int_to_ld(n))

\* C12 as stated: from_enum<TOut>(e) fires exactly when the underlying value
\* of e is not representable in TOut, and otherwise returns that value; the
\* one-argument from_enum(e) never fires.
C12_FiresIffNotRepresentable ==
    /\ EnumCastDone("from_enum") =>
          /\ en.st = "aborted" <=> ~RepresentableIn(en.TOut, en.x.v)
          /\ en.st = "returned" =>
                en.ret = IF is_integral(en.TOut) THEN en.x.v ELSE Norm(en.x.v, 0)
    /\ EnumCastDone("from_enum_underlying") => en.st = "returned"

\* C12: from_enum<TOut>(e) fires exactly when the underlying value of e lies
\* outside the range of TOut.  For an integer TOut that is when the value is
\* not representable, and a returned result is the underlying value itself.
\* For a floating TOut it never fires, and the result is the underlying
\* value whenever this fits the mantissa (it is a rounded value otherwise).
\* The one-argument from_enum(e) never fires and returns the underlying value.
C12_FiresIffOutsideRange ==
    /\ EnumCastDone("from_enum") =>
          /\ en.st = "aborted" <=> ~InsideRangeOf(en.TOut, en.x.v)
          /\ is_integral(en.TOut) =>
                /\ en.st = "aborted" <=> ~RepresentableIn(en.TOut, en.x.v)
                /\ en.st = "returned" => en.ret = en.x.v
          /\ ~is_integral(en.TOut) =>
                /\ en.st = "returned"
                /\ RepresentableIn(en.TOut, en.x.v) => en.ret = Norm(en.x.v, 0)
    /\ EnumCastDone("from_enum_underlying") =>
          /\ en.st = "returned"
          /\ en.ret = en.x.v

\* from_enum<unsigned int>(int_enum::neg0) has fired
C12_Witness ==
    /\ en.st = "aborted"
    /\ en.fn = "from_enum"
    /\ en.TOut = "uint"
    /\ en.x = enum_value("int_enum", -1)

\* from_enum<float> of an int_enum value that float cannot hold returned
C12_RoundedWitness ==
    /\ en.st = "returned"
    /\ en.fn = "from_enum"
    /\ en.TOut = "float"
    /\ en.TIn = "int_enum"
    /\ ~RepresentableIn("float", en.x.v)

\* the number x of type TIn lies outside the range of the integer type T
OutsideRangeOf(T, TIn, x) ==
    IF is_integral(TIn) THEN ~InRange(T, x)
    ELSE ~(/\ x.cls = "fin"
           /\ ~Less(x, int_to_ld(int_min(T)))
           /\ ~Less(int_to_ld(int_max(T)), x))

\* the integer n equals the number x of type TIn
EqualsNumber(n, TIn, x) ==
    IF is_integral(TIn) THEN n = x ELSE Norm(n, 0) = x

\* C13: for an arithmetic x and an enum E, to_enum<E>(x) fires exactly when
\* x is outside the range of E's underlying type, and a returned result is
\* the value of E whose underlying value equals x.
C13_FiresIffOutsideUnderlyingRange ==
    EnumCastDone("to_enum_num") =>
        /\ en.st = "aborted" <=>
              OutsideRangeOf(underlying_type[en.TOut], en.TIn, en.x)
        /\ en.st = "returned" =>
              /\ en.ret.enum = en.TOut
              /\ EqualsNumber(en.ret.v, en.TIn, en.x)

\* C13 holds for every integer x
C13_IntegerArguments ==
    is_integral(en.TIn) => C13_FiresIffOutsideUnderlyingRange

\* C14: for enums EIn and EOut, to_enum<EOut>(e) fires exactly when the
\* underlying value of e is not representable in EOut's underlying type, and
\* a returned result is the value of EOut with the same underlying value.
C14_EnumToEnum ==
    EnumCastDone("to_enum_enum") =>
        /\ en.st = "aborted" <=> ~InRange(underlying_type[en.TOut], en.x.v)
        /\ en.st = "returned" => en.ret = enum_value(en.TOut, en.x.v)

\* to_enum<uchar_enum>(int_enum::neg0) has fired
C14_Witness ==
    /\ en.st = "aborted"
    /\ en.fn = "to_enum_enum"
    /\ en.TOut = "uchar_enum"
    /\ en.x = enum_value("int_enum", -1)

\* to_enum<int_enum>(uchar_enum::pos0) has returned int_enum::pos0
C14_ReturnedWitness ==
    /\ en.st = "returned"
    /\ en.fn = "to_enum_enum"
    /\ en.x = enum_value("uchar_enum", 0)
    /\ en.ret = enum_value("int_enum", 0)

====
